---- MODULE Spec2Model ----
EXTENDS Integers, Naturals, Sequences, FiniteSets, TLC

(***************************************************************************)
(* Natural numbers of arbitrary size: little-endian sequences of limbs in  *)
(* 0..Base-1 without leading zero limbs; <<>> is zero.                      *)
(***************************************************************************)
Base == 2^15

Min(i, j) == IF i < j THEN i ELSE j
Max(i, j) == IF i < j THEN j ELSE i

RECURSIVE BTrim(_)
BTrim(a) ==
    IF a = <<>> THEN <<>>
    ELSE IF a[Len(a)] = 0 THEN BTrim(SubSeq(a, 1, Len(a) - 1))
    ELSE a

BFromInt(n) ==
    IF n = 0 THEN <<>>
    ELSE IF n < Base THEN <<n>>
    ELSE IF n < Base * Base THEN <<n % Base, n \div Base>>
    ELSE <<n % Base, (n \div Base) % Base, n \div (Base * Base)>>

BLimb(a, i) == IF i >= 1 /\ i <= Len(a) THEN a[i] ELSE 0

\* the carry into limb i of the limb-wise sums s, found by looking at the limbs below it
BCarry(s, i) ==
    IF \E j \in 1..(i - 1) : s[j] >= Base /\ \A k \in (j + 1)..(i - 1) : s[k] >= Base - 1
    THEN 1 ELSE 0

\* the number whose limb-wise sums are s, each below 2 * Base - 1
BCarried(s) == BTrim([i \in 1..Len(s) |-> (s[i] + BCarry(s, i)) % Base] \o <<>>)

BAdd(a, b) == BCarried([i \in 1..Max(Len(a), Len(b)) |-> BLimb(a, i) + BLimb(b, i)] \o <<0>>)

\* the borrow from limb i of the limb-wise differences d
BBorrow(d, i) ==
    IF \E j \in 1..(i - 1) : d[j] < 0 /\ \A k \in (j + 1)..(i - 1) : d[k] <= 0
    THEN 1 ELSE 0

BBorrowed(d) == BTrim([i \in 1..Len(d) |-> (d[i] - BBorrow(d, i) + Base) % Base] \o <<>>)

\* a - b for a >= b
BSub(a, b) == BBorrowed([i \in 1..Len(a) |-> a[i] - BLimb(b, i)] \o <<>>)

\* comparison: -1, 0, 1
BCmp(a, b) ==
    IF Len(a) < Len(b) THEN -1
    ELSE IF Len(a) > Len(b) THEN 1
    ELSE IF a = b THEN 0
    ELSE IF \E i \in 1..Len(a) : a[i] < b[i] /\ \A j \in (i + 1)..Len(a) : a[j] = b[j] THEN -1
    ELSE 1

\* a * k for 0 <= k < Base
BMulSmall(a, k) ==
    IF k = 0 \/ a = <<>> THEN <<>>
    ELSE BCarried([i \in 1..(Len(a) + 1) |->
                      ((BLimb(a, i) * k) % Base) + ((BLimb(a, i - 1) * k) \div Base)] \o <<>>)

Zeros(n) == [i \in 1..n |-> 0] \o <<>>

\* a * (b without its limbs below i)
RECURSIVE BMulFrom(_, _, _)
BMulFrom(a, b, i) ==
    IF i > Len(b) THEN <<>>
    ELSE BAdd(Zeros(i - 1) \o BMulSmall(a, b[i]), BMulFrom(a, b, i + 1))

BMul(a, b) ==
    IF a = <<>> \/ b = <<>> THEN <<>>
    ELSE BMulFrom(IF Len(a) < Len(b) THEN b ELSE a, IF Len(a) < Len(b) THEN a ELSE b, 1)

BShl(a, n) == IF a = <<>> THEN <<>> ELSE Zeros(n \div 15) \o BMulSmall(a, 2^(n % 15))

BShr(a, n) ==
    IF n \div 15 >= Len(a) THEN <<>>
    ELSE BTrim([i \in 1..(Len(a) - (n \div 15)) |->
             (a[i + (n \div 15)] \div 2^(n % 15))
             + (BLimb(a, i + (n \div 15) + 1) % 2^(n % 15)) * 2^(15 - (n % 15))] \o <<>>)

\* the low n bits of a are zero
BLowZero(a, n) ==
    /\ \A i \in 1..(n \div 15) : i > Len(a) \/ a[i] = 0
    /\ (n \div 15) + 1 > Len(a) \/ a[(n \div 15) + 1] % 2^(n % 15) = 0

RECURSIVE IntBits(_)
IntBits(k) == IF k = 0 THEN 0 ELSE 1 + IntBits(k \div 2)

BBits(a) == IF a = <<>> THEN 0 ELSE 15 * (Len(a) - 1) + IntBits(a[Len(a)])

BOdd(a) == a # <<>> /\ a[1] % 2 = 1

\* the value of a number of at most two limbs
BToInt(a) == IF a = <<>> THEN 0 ELSE IF Len(a) = 1 THEN a[1] ELSE a[1] + Base * a[2]

RECURSIVE BDigitFix(_, _, _)
BDigitFix(cur, b, qhat) ==
    IF BCmp(BMulSmall(b, qhat), cur) > 0 THEN BDigitFix(cur, b, qhat - 1) ELSE qhat

\* the quotient digit floor(cur / b), for cur < b * Base and b normalised
BDigit(cur, b) ==
    BDigitFix(cur, b,
        IF Len(cur) < Len(b) THEN 0
        ELSE IF Len(cur) = Len(b) THEN cur[Len(b)] \div b[Len(b)]
        ELSE Min(Base - 1, (cur[Len(b) + 1] * Base + cur[Len(b)]) \div b[Len(b)]))

\* schoolbook division of the limbs i, i-1, .. 1 of a by b: rem is the remainder of
\* the limbs above i and quot their quotient; yields << quotient, remainder >>
RECURSIVE BDivFrom(_, _, _, _, _)
BDivPut(a, b, i, cur, quot, q) ==
    IF q = 0 THEN BDivFrom(a, b, i - 1, cur, <<0>> \o quot)
    ELSE BDivFrom(a, b, i - 1, BSub(cur, BMulSmall(b, q)), <<q>> \o quot)

BDivStep(a, b, i, cur, quot) == BDivPut(a, b, i, cur, quot, BDigit(cur, b))

BDivFrom(a, b, i, rem, quot) ==
    IF i = 0 THEN <<BTrim(quot), rem>>
    ELSE BDivStep(a, b, i, BTrim(<<a[i]>> \o rem), quot)

BDivNorm(a, b) == BDivFrom(a, b, Len(a), <<>>, <<>>)

\* << floor(a / b), a mod b >> for b # 0, both scaled so that the divisor is normalised
BDivMod(a, b) == BDivNorm(BShl(a, 15 - IntBits(b[Len(b)])), BShl(b, 15 - IntBits(b[Len(b)])))

(***************************************************************************)
(* Python floats (IEEE 754 binary64, round to nearest even): a float is    *)
(* <<sign, mantissa, exponent>> of value (-1)^sign * mantissa * 2^exponent *)
(* with a mantissa of exactly MantBits bits; zero is FZero.                *)
(***************************************************************************)
MantBits == 53

FZero == <<0, <<>>, 0>>

FOne == <<0, BShl(<<1>>, MantBits - 1), 1 - MantBits>>

\* a mantissa of MantBits or MantBits + 1 bits brought to MantBits bits
FNorm(s, n, e) == IF BBits(n) > MantBits THEN <<s, BShr(n, 1), e + 1>> ELSE <<s, n, e>>

\* n * 2^e with the low k bits of n rounded away
FRoundCut(s, n, e, sticky, k) ==
    FNorm(s,
          IF BOdd(BShr(n, k - 1)) /\ (sticky \/ ~BLowZero(n, k - 1) \/ BOdd(BShr(n, k)))
          THEN BAdd(BShr(n, k), <<1>>) ELSE BShr(n, k),
          e + k)

FRoundBits(s, n, e, sticky, l) ==
    IF l <= MantBits THEN <<s, BShl(n, MantBits - l), e - (MantBits - l)>>
    ELSE FRoundCut(s, n, e, sticky, l - MantBits)

\* the float nearest to (-1)^s * (n + sticky) * 2^e
FRound(s, n, e, sticky) == IF n = <<>> THEN FZero ELSE FRoundBits(s, n, e, sticky, BBits(n))

FInt(i) == FRound(IF i < 0 THEN 1 ELSE 0, BFromInt(IF i < 0 THEN -i ELSE i), 0, FALSE)

FNeg(a) == IF a[2] = <<>> THEN a ELSE <<1 - a[1], a[2], a[3]>>

FAbs(a) == <<0, a[2], a[3]>>

\* comparison of magnitudes: -1, 0, 1
FCmpAbs(a, b) ==
    IF a[2] = <<>> THEN (IF b[2] = <<>> THEN 0 ELSE -1)
    ELSE IF b[2] = <<>> THEN 1
    ELSE IF a[3] < b[3] THEN -1
    ELSE IF a[3] > b[3] THEN 1
    ELSE BCmp(a[2], b[2])

FCmp(a, b) ==
    IF a[1] # b[1] THEN (IF a[1] = 1 THEN -1 ELSE 1)
    ELSE FCmpAbs(IF a[1] = 0 THEN a ELSE b, IF a[1] = 0 THEN b ELSE a)

FLt(a, b) == FCmp(a, b) < 0
FLe(a, b) == FCmp(a, b) <= 0

\* the sum of (-1)^sa * na * 2^e and (-1)^sb * nb * 2^e
FAddAligned(sa, na, sb, nb, e) ==
    FRound(IF sa = sb \/ BCmp(na, nb) >= 0 THEN sa ELSE sb,
           IF sa = sb THEN BAdd(na, nb)
           ELSE IF BCmp(na, nb) >= 0 THEN BSub(na, nb) ELSE BSub(nb, na),
           e, FALSE)

FAdd(a, b) ==
    IF a[2] = <<>> THEN b
    ELSE IF b[2] = <<>> THEN a
    ELSE FAddAligned(a[1], BShl(a[2], a[3] - Min(a[3], b[3])),
                     b[1], BShl(b[2], b[3] - Min(a[3], b[3])), Min(a[3], b[3]))

FSub(a, b) == FAdd(a, FNeg(b))

FMul(a, b) ==
    IF a[2] = <<>> \/ b[2] = <<>> THEN FZero
    ELSE FRound((a[1] + b[1]) % 2, BMul(a[2], b[2]), a[3] + b[3], FALSE)

FDivRound(s, qr, e) == FRound(s, qr[1], e, qr[2] # <<>>)

\* a / b for b # 0
FDiv(a, b) ==
    IF a[2] = <<>> \/ b[2] = <<>> THEN FZero
    ELSE FDivRound((a[1] + b[1]) % 2, BDivMod(BShl(a[2], 60), b[2]), a[3] - b[3] - 60)

\* math.floor: the largest integral float <= a
FFloor(a) ==
    IF a[2] = <<>> \/ a[3] >= 0 THEN a
    ELSE FRound(a[1],
                IF a[1] = 1 /\ ~BLowZero(a[2], -a[3]) THEN BAdd(BShr(a[2], -a[3]), <<1>>)
                ELSE BShr(a[2], -a[3]),
                0, FALSE)

\* math.ceil
FCeil(a) == FNeg(FFloor(FNeg(a)))

FMax(a, b) == IF FLt(a, b) THEN b ELSE a
FMin(a, b) == IF FLt(b, a) THEN b ELSE a

\* the decimal literal n / 10^k
FDec(n, k) == FDiv(FInt(n), FInt(10^k))

\* the neighbouring floats of a nonzero float, away from zero and towards it
FSucc(a) == FNorm(a[1], BAdd(a[2], <<1>>), a[3])

FPred(a) ==
    IF BLowZero(a[2], MantBits - 1)
    THEN <<a[1], BSub(BShl(a[2], 1), <<1>>), a[3] - 1>>
    ELSE <<a[1], BSub(a[2], <<1>>), a[3]>>

\* int(a) for a float a of integral value
FToInt(a) ==
    IF a[2] = <<>> THEN 0
    ELSE (IF a[1] = 1 THEN -1 ELSE 1)
         * BToInt(IF a[3] >= 0 THEN BShl(a[2], a[3]) ELSE BShr(a[2], -a[3]))

(***************************************************************************)
(* The functions of the math module that bstat/data.py calls, and the      *)
(* power operator on floats.                                                *)
(***************************************************************************)
RECURSIVE BPow(_, _)
BPow(a, n) == IF n = 0 THEN <<1>> ELSE BMul(a, BPow(a, n - 1))

\* comparison of na * 2^ea with nb * 2^eb: -1, 0, 1
DCmp(na, ea, nb, eb) == BCmp(BShl(na, ea - Min(ea, eb)), BShl(nb, eb - Min(ea, eb)))

Pow10Of(j, p) == IF j >= 0 THEN p ELSE FDiv(FOne, p)

\* math.pow(10, j) for an integer j
Pow10(j) == Pow10Of(j, FRound(0, BPow(<<10>>, IF j < 0 THEN -j ELSE j), 0, FALSE))

\* a ** i for a float a > 0 and an integer i >= 0
FPowInt(a, i) == FRound(0, BPow(a[2], i), a[3] * i, FALSE)

\* tn <= pn, or tn is so little above pn that pn * (1 + (tn - pn) / (pn * ln 10)) rounds
\* to pn, h being the number of bits after the binary point of j (ln 10 = 2.302585)
Log10Near(tn, pn, j, h) ==
    \/ BCmp(tn, pn) <= 0
    \/ /\ j # 0
       /\ BCmp(BShl(BMul(BSub(tn, pn), BFromInt(10^6)), h), BMul(pn, BFromInt(2302585))) <= 0

Log10Ulp(j, a, p) == IF j < 0 /\ a = 2^p THEN 54 - p ELSE 53 - p

\* math.log10(t) <= j for a float t > 0: t <= 10^j, or t is so little above 10^j
\* that log10(t) rounds to j
Log10AtMost(t, j) ==
    Log10Near(BShl(BMul(t[2], BPow(<<10>>, IF j < 0 THEN -j ELSE 0)), IF t[3] > 0 THEN t[3] ELSE 0),
              BShl(BPow(<<10>>, IF j > 0 THEN j ELSE 0), IF t[3] < 0 THEN -t[3] ELSE 0),
              j,
              Log10Ulp(j, IF j < 0 THEN -j ELSE j, IntBits(IF j < 0 THEN -j ELSE j) - 1))

RECURSIVE Log10Search(_, _)
Log10Search(t, j) == IF Log10AtMost(t, j) THEN j ELSE Log10Search(t, j + 1)

\* math.ceil(math.log10(t)) for a float t > 0
Log10Ceil(t) == Log10Search(t, (((t[3] + 52) * 30103) \div 100000) - 2)

\* log2(n) rounded down to an integer, for an integer n >= 1
FloorLog2(n) == IntBits(n) - 1

\* log2(n) rounded to the nearest integer, for an integer n >= 1
RECURSIVE RoundLog2From(_, _)
RoundLog2From(n, k) == IF n * n < 2^(2 * k + 1) THEN k ELSE RoundLog2From(n, k + 1)
RoundLog2(n) == RoundLog2From(n, 0)

\* 10^4 * (e * ln 2 + 2 * artanh(z / 10^4)), the artanh by its series (ln 2 = 0.6931)
LnSeries(e, z, z2) ==
    e * 6931
    + 2 * (z + (((z2 * z) \div 10^4) \div 3)
             + (((((z2 * z) \div 10^4) * z2) \div 10^4) \div 5)
             + (((((((z2 * z) \div 10^4) * z2) \div 10^4) * z2) \div 10^4) \div 7))

LnOfRatio(e, z) == LnSeries(e, z, (z * z) \div 10^4)

LnOfTop(e, top) == LnOfRatio(e, ((top - 16384) * 10^4) \div (top + 16384))

\* the natural logarithm of a float g > 0, times 10^4
LnApprox(g) == LnOfTop(g[3] + 52, BShr(g[2], 38)[1])

\* a - b for numbers that differ by less than Base
BDiff(a, b) == IF BCmp(a, b) >= 0 THEN BToInt(BSub(a, b)) ELSE -BToInt(BSub(b, a))

\* nc * 2^ec <= g ** (f / so), to first order in f / so - 1 / b
PowLeCmp(nc, ec, g, b, so, k) ==
    DCmp(BMul(BPow(nc, b), so), ec * b,
         BMul(g[2], IF k >= 0 THEN BAdd(so, BFromInt(k)) ELSE BSub(so, BFromInt(-k))), g[3]) <= 0

PowLeErr(nc, ec, g, b, one, bm) ==
    PowLeCmp(nc, ec, g, b, BMulSmall(one, 10^4), LnApprox(g) * BDiff(bm, one))

PowLeInv(nc, ec, g, b, iv) == PowLeErr(nc, ec, g, b, BShl(<<1>>, -iv[3]), BMulSmall(iv[2], b))

\* c <= g ** fl(1/b), or with half set c + ulp(c)/2 <= g ** fl(1/b), for
\* floats c >= 0 and g > 0 and an integer b >= 1
PowLe(c, half, g, b) ==
    IF c[2] = <<>> THEN TRUE
    ELSE PowLeInv(IF half THEN BAdd(BShl(c[2], 1), <<1>>) ELSE c[2],
                  IF half THEN c[3] - 1 ELSE c[3], g, b, FDiv(FOne, FInt(b)))

RECURSIVE PowNewton(_, _, _, _)
PowNewtonStep(g, b, y, n, y1) == IF n = 0 \/ y1 = y THEN y ELSE PowNewton(g, b, y1, n - 1)

\* Newton's iteration for the b-th root of g, from y, at most n steps
PowNewton(g, b, y, n) ==
    PowNewtonStep(g, b, y, n,
        FDiv(FAdd(FMul(FInt(b - 1), y), FDiv(g, FPowInt(y, b - 1))), FInt(b)))

RECURSIVE PowDown(_, _, _)
PowDown(g, b, y) == IF PowLe(y, FALSE, g, b) THEN y ELSE PowDown(g, b, FPred(y))

RECURSIVE PowUp(_, _, _)
PowUpTo(g, b, y, next) == IF PowLe(next, FALSE, g, b) THEN PowUp(g, b, next) ELSE y

PowUp(g, b, y) == PowUpTo(g, b, y, FSucc(y))

\* the largest float <= g ** fl(1/b), found from an approximation y
PowFloor(g, b, y) == PowUp(g, b, PowDown(g, b, y))

PowNearest(g, b, y) == IF PowLe(y, TRUE, g, b) THEN FSucc(y) ELSE y

\* g ** (1.0 / b) for a float g > 0 and an integer b >= 1
PowRoot(g, b) ==
    PowNearest(g, b,
        PowFloor(g, b,
            PowNewton(g, b, <<0, BShl(<<1>>, 52), ((g[3] + 53 + b - 1) \div b) - 52>>, 20)))

(***************************************************************************)
(* The rounding helpers of bstat/data.py.  A call yields a record: status  *)
(* is "ok" or the name of the exception raised, value the number returned, *)
(* tries the number of quanta tried.  An optional argument is <<>> for     *)
(* None and <<v>> for the value v.                                         *)
(***************************************************************************)
None == <<>>

Returned(v, n) == [status |-> "ok", value |-> v, tries |-> n]

Raised(e, n) == [status |-> e, value |-> FZero, tries |-> n]

\* the divisors itertools.cycle([2, 5]) yields: 2 at the odd tries, 5 at the even ones
divisor(n) == FInt(IF n % 2 = 1 THEN 2 ELSE 5)

\* the loop of round_up_to_nice, at its n-th quantum
RECURSIVE round_up_loop(_, _, _, _)
round_up_try(x, tolerance, quantum, n, result) ==
    IF ~FLe(x, result) THEN Raised("AssertionError", n)
    ELSE IF FLe(FSub(result, x), tolerance) THEN Returned(result, n)
    ELSE round_up_loop(x, tolerance, FDiv(quantum, divisor(n)), n + 1)

round_up_loop(x, tolerance, quantum, n) ==
    round_up_try(x, tolerance, quantum, n, FMul(FCeil(FDiv(x, quantum)), quantum))

\* round_up_to_nice for x # 0 and the tolerance made definite
\* round_up_to_nice without the branch for a tolerance of 0: math.log10(0) raises
round_up_quantized(x, tolerance) ==
    IF tolerance = FZero \/ tolerance[1] = 1 THEN Raised("ValueError", 0)
    ELSE round_up_loop(x, tolerance, Pow10(Log10Ceil(tolerance)), 1)

round_up_within(x, tolerance) ==
    IF tolerance = FZero THEN Returned(x, 0)
    ELSE IF tolerance[1] = 1 THEN Raised("ValueError", 0)
    ELSE round_up_loop(x, tolerance, Pow10(Log10Ceil(tolerance)), 1)

round_up_to_nice(x, tolerance) ==
    IF x = FZero THEN Returned(FZero, 0)
    ELSE round_up_within(x, IF tolerance = None THEN FAbs(FDiv(x, FInt(10))) ELSE tolerance[1])

\* the loop of round_down_to_nice, at its n-th quantum
RECURSIVE round_down_loop(_, _, _, _)
round_down_try(x, tolerance, quantum, n, result) ==
    IF ~FLe(result, x) THEN Raised("AssertionError", n)
    ELSE IF FLe(FSub(x, result), tolerance) THEN Returned(result, n)
    ELSE round_down_loop(x, tolerance, FDiv(quantum, divisor(n)), n + 1)

round_down_loop(x, tolerance, quantum, n) ==
    round_down_try(x, tolerance, quantum, n, FMul(FFloor(FDiv(x, quantum)), quantum))

round_down_within(x, tolerance) ==
    IF tolerance = FZero THEN Returned(x, 0)
    ELSE IF tolerance[1] = 1 THEN Raised("ValueError", 0)
    ELSE round_down_loop(x, tolerance, Pow10(Log10Ceil(tolerance)), 1)

round_down_to_nice(x, tolerance) ==
    IF x = FZero THEN Returned(FZero, 0)
    ELSE round_down_within(x, IF tolerance = None THEN FAbs(FDiv(x, FInt(10))) ELSE tolerance[1])

\* the first of the values, however near the others are
first_of(x, values) == values[1]

RECURSIVE nearest_from(_, _, _, _)
nearest_from(x, values, i, result) ==
    IF i > Len(values) THEN result
    ELSE nearest_from(x, values, i + 1,
             IF FLt(FAbs(FSub(values[i], x)), FAbs(FSub(result, x))) THEN values[i] ELSE result)

nearest(x, values) == nearest_from(x, values, 1, values[1])

\* round_to_nice once both choices are computed
round_to_nice_of(x, down, up) ==
    IF up.status # "ok" THEN up
    ELSE Returned(nearest(x, <<down.value, up.value>>), down.tries + up.tries)

round_to_nice_from(x, tolerance, down) ==
    IF down.status # "ok" THEN down
    ELSE round_to_nice_of(x, down, round_up_to_nice(x, tolerance))

round_to_nice(x, tolerance) == round_to_nice_from(x, tolerance, round_down_to_nice(x, tolerance))

(***************************************************************************)
(* AutoBins.  values is a sequence of floats, values_and_counts a sequence *)
(* of <<value, count>> pairs.  The object is a record: status is "ok" or   *)
(* the exception raised by the constructor, where names the statement that *)
(* raised it.  Besides the attributes the constructor sets, the record     *)
(* keeps the constructor's locals: low, high, total_count, the bin count   *)
(* aimed at (target), the candidate linear layout (linear),                *)
(* number_in_first_bucket and bucket_exponent (growth).                    *)
(***************************************************************************)
NoLayout == [lower_bound |-> FZero, bin_size |-> FZero, bin_count |-> 0, bin_boundaries |-> <<>>]

NoBins ==
    [status |-> "none", where |-> "", lower_bound |-> FZero, bin_size |-> None, bin_count |-> 0,
     bin_boundaries |-> <<>>, logarithmic |-> FALSE, growth |-> None,
     low |-> FZero, high |-> FZero, total_count |-> 0, target |-> 0,
     linear |-> NoLayout, number_in_first_bucket |-> 0]

\* each distinct value, counted once however often it occurs
RECURSIVE counted_once(_)
counted_once(values) ==
    IF values = <<>> THEN <<>>
    ELSE << <<values[1], 1>> >> \o counted_once(SelectSeq(Tail(values), LAMBDA w : w # values[1]))

\* Counter(values).iteritems(): each distinct value with its number of occurrences
RECURSIVE Counter(_)
Counter(values) ==
    IF values = <<>> THEN <<>>
    ELSE << <<values[1], Cardinality({i \in 1..Len(values) : values[i] = values[1]})>> >>
         \o Counter(SelectSeq(Tail(values), LAMBDA w : w # values[1]))

RECURSIVE total_of(_)
total_of(values_and_counts) ==
    IF values_and_counts = <<>> THEN 0
    ELSE values_and_counts[1][2] + total_of(Tail(values_and_counts))

RECURSIVE min_of(_)
min_of(values_and_counts) ==
    IF Len(values_and_counts) = 1 THEN values_and_counts[1][1]
    ELSE FMin(values_and_counts[1][1], min_of(Tail(values_and_counts)))

RECURSIVE max_of(_)
max_of(values_and_counts) ==
    IF Len(values_and_counts) = 1 THEN values_and_counts[1][1]
    ELSE FMax(values_and_counts[1][1], max_of(Tail(values_and_counts)))

\* sum(c for (v, c) in values_and_counts if v < bound)
RECURSIVE count_below(_, _)
count_below(values_and_counts, bound) ==
    IF values_and_counts = <<>> THEN 0
    ELSE (IF FLt(values_and_counts[1][1], bound) THEN values_and_counts[1][2] ELSE 0)
         + count_below(Tail(values_and_counts), bound)

\* boundaries that start one bin size above the lower bound
RECURSIVE linear_boundaries_above(_, _, _, _)
linear_boundaries_above(lower_bound, bin_size, bin_count, i) ==
    IF i > bin_count THEN <<>>
    ELSE <<FAdd(lower_bound, FMul(FInt(i + 1), bin_size))>>
         \o linear_boundaries_above(lower_bound, bin_size, bin_count, i + 1)

\* [lower_bound + i * bin_size for i in xrange(i, bin_count + 1)]
RECURSIVE linear_boundaries(_, _, _, _)
linear_boundaries(lower_bound, bin_size, bin_count, i) ==
    IF i > bin_count THEN <<>>
    ELSE <<FAdd(lower_bound, FMul(FInt(i), bin_size))>>
         \o linear_boundaries(lower_bound, bin_size, bin_count, i + 1)

\* [round_up_to_nice(lower_bound * (bucket_exponent ** i)) for i in xrange(i, bin_count + 1)],
\* as the records of the calls, up to the first call that raises
RECURSIVE log_boundaries(_, _, _, _)
log_boundaries_with(lower_bound, bucket_exponent, bin_count, i, r) ==
    IF r.status # "ok" THEN <<r>>
    ELSE <<r>> \o log_boundaries(lower_bound, bucket_exponent, bin_count, i + 1)

log_boundaries(lower_bound, bucket_exponent, bin_count, i) ==
    IF i > bin_count THEN <<>>
    ELSE log_boundaries_with(lower_bound, bucket_exponent, bin_count, i,
             round_up_to_nice(FMul(lower_bound, FPowInt(bucket_exponent, i)), None))

\* lines 237-243: the attributes of the logarithmic layout, calls being the records of
\* the calls of round_up_to_nice that make the boundaries
AutoBinsLogBoundaries(self, lower_bound, bucket_exponent, calls) ==
    IF calls[Len(calls)].status # "ok"
    THEN [self EXCEPT !.status = calls[Len(calls)].status, !.where = "bin_boundaries = round_up_to_nice"]
    ELSE [self EXCEPT !.status = "ok",
                      !.lower_bound = lower_bound,
                      !.bin_count = self.linear.bin_count,
                      !.growth = <<bucket_exponent>>,
                      !.bin_boundaries = [i \in 1..Len(calls) |-> calls[i].value] \o <<>>]

AutoBinsLogGrowth(self, lower_bound, bucket_exponent) ==
    IF bucket_exponent.status # "ok"
    THEN [self EXCEPT !.status = bucket_exponent.status, !.where = "bucket_exponent = round_up_to_nice"]
    ELSE AutoBinsLogBoundaries(self, lower_bound, bucket_exponent.value,
             log_boundaries(lower_bound, bucket_exponent.value, self.linear.bin_count, 0))

\* lines 234-236: total_growth = float(upper_bound) / float(lower_bound) and
\* bucket_exponent = round_up_to_nice(total_growth ** (1.0 / b))
AutoBinsLogFrom(self, lower_bound) ==
    IF lower_bound.status # "ok"
    THEN [self EXCEPT !.status = lower_bound.status, !.where = "lower_bound = round_down_to_nice(low)"]
    ELSE IF lower_bound.value = FZero
    THEN [self EXCEPT !.status = "ZeroDivisionError",
                      !.where = "total_growth = float(upper_bound) / float(lower_bound)"]
    ELSE AutoBinsLogGrowth(self, lower_bound.value,
             round_up_to_nice(PowRoot(FDiv(self.high, lower_bound.value), self.linear.bin_count), None))

\* lines 227-243: the layout is redone for the logarithmic case
AutoBinsLog(self) == AutoBinsLogFrom(self, round_down_to_nice(self.low, None))

\* a choice that is logarithmic already with half of the occurrences in the first bin
first_bucket_at_least_half(low, total_count, number_in_first_bucket) ==
    FLt(FZero, low) /\ (total_count \div 2) <= number_in_first_bucket

\* lines 216-219: 0 < low and (total_count / 2 < number_in_first_bucket)
is_logarithmic_choice(low, total_count, number_in_first_bucket) ==
    FLt(FZero, low) /\ (total_count \div 2) < number_in_first_bucket

\* lines 220-225: the linear candidate is kept unless the layout is logarithmic
AutoBinsLayout(self) ==
    IF ~self.logarithmic
    THEN [self EXCEPT !.status = "ok",
                      !.lower_bound = self.linear.lower_bound,
                      !.bin_size = <<self.linear.bin_size>>,
                      !.bin_count = self.linear.bin_count,
                      !.bin_boundaries = self.linear.bin_boundaries]
    ELSE AutoBinsLog(self)

AutoBinsChosen(self, number_in_first_bucket) ==
    AutoBinsLayout([self EXCEPT
        !.number_in_first_bucket = number_in_first_bucket,
        !.logarithmic = is_logarithmic_choice(self.low, self.total_count, number_in_first_bucket)])

\* lines 209-225: the choice between the linear candidate and the logarithmic layout
AutoBinsChoose(self, values_and_counts) ==
    AutoBinsChosen(self, count_below(values_and_counts, self.linear.bin_boundaries[2]))

\* line 198: bin_count = int(math.ceil((high - lower_bound) / bin_size))
recomputed_bin_count(high, lower_bound, bin_size) ==
    FToInt(FCeil(FDiv(FSub(high, lower_bound), bin_size)))

\* lines 200-207: the two assertions, and the boundaries of the linear candidate
AutoBinsAssert(self, values_and_counts, candidate) ==
    IF ~FLe(candidate.lower_bound, self.low)
    THEN [self EXCEPT !.status = "AssertionError", !.where = "assert lower_bound <= low",
                      !.linear = candidate]
    ELSE IF ~FLe(self.high, FAdd(candidate.lower_bound,
                                 FMul(candidate.bin_size, FInt(candidate.bin_count))))
    THEN [self EXCEPT !.status = "AssertionError",
                      !.where = "assert high <= lower_bound + bin_size * bin_count",
                      !.linear = candidate]
    ELSE AutoBinsChoose(
             [self EXCEPT !.linear = [candidate EXCEPT !.bin_boundaries =
                 linear_boundaries(candidate.lower_bound, candidate.bin_size, candidate.bin_count, 0)]],
             values_and_counts)

AutoBinsCount(self, values_and_counts, bin_size, lower_bound) ==
    AutoBinsAssert(self, values_and_counts,
        [lower_bound |-> lower_bound, bin_size |-> bin_size,
         bin_count |-> recomputed_bin_count(self.high, lower_bound, bin_size),
         bin_boundaries |-> <<>>])

\* the lower bound kept as computed, negative or not
AutoBinsUnclamped(self, values_and_counts, bin_size, lower_bound) ==
    AutoBinsCount(self, values_and_counts, bin_size, lower_bound)

\* lines 194-195: a negative lower bound becomes 0 when no value is negative
AutoBinsClamp(self, values_and_counts, bin_size, lower_bound) ==
    AutoBinsCount(self, values_and_counts, bin_size,
        IF FLt(lower_bound, FZero) /\ FLe(FZero, self.low) THEN FZero ELSE lower_bound)

\* lines 189-207: lower bound, bin count, assertions and boundaries of the linear candidate
AutoBinsLinear(self, values_and_counts, middle, bin_size) ==
    AutoBinsClamp(self, values_and_counts, bin_size,
        FSub(middle, FMul(bin_size, FDiv(FInt(self.target), FInt(2)))))

\* lines 184-185: the nice bin size
AutoBinsBinSize(self, values_and_counts, middle, bin_size) ==
    IF bin_size.status # "ok"
    THEN [self EXCEPT !.status = bin_size.status, !.where = "bin_size = round_up_to_nice"]
    ELSE IF bin_size.value = FZero
    THEN [self EXCEPT !.status = "ZeroDivisionError", !.where = "bin_count = int(math.ceil"]
    ELSE AutoBinsLinear(self, values_and_counts, middle, bin_size.value)

AutoBinsMiddle(self, values_and_counts, middle) ==
    IF middle.status # "ok"
    THEN [self EXCEPT !.status = middle.status, !.where = "middle = round_to_nice"]
    ELSE AutoBinsBinSize(self, values_and_counts, middle.value,
             round_up_to_nice(
                 FDiv(FMul(FMax(FSub(middle.value, self.low), FSub(self.high, middle.value)), FInt(2)),
                      FInt(self.target)),
                 None))

\* lines 175-185: the span, the nice middle and the nice bin size
AutoBinsSize(self, values_and_counts) ==
    AutoBinsMiddle(self, values_and_counts,
        round_to_nice(FDiv(FAdd(self.low, self.high), FInt(2)),
                      <<FDiv(FSub(self.high, self.low), FInt(self.target))>>))

\* Sturges' rule whatever bin count is supplied
sturges_bin_count(bin_count, total_count) == 1 + RoundLog2(total_count)

\* lines 176-177: the bin count aimed at is the one supplied, or else Sturges' rule
target_bin_count(bin_count, total_count) ==
    IF bin_count = None THEN 1 + RoundLog2(total_count) ELSE bin_count[1]

\* the general formula for every input, a single distinct value included
AutoBinsGeneral(values_and_counts, bin_count, total_count) ==
    IF values_and_counts = <<>>
    THEN [NoBins EXCEPT !.status = "ValueError", !.where = "low = min(values)"]
    ELSE AutoBinsSize(
             [NoBins EXCEPT !.low = min_of(values_and_counts),
                            !.high = max_of(values_and_counts),
                            !.total_count = total_count,
                            !.target = target_bin_count(bin_count, total_count)],
             values_and_counts)

\* lines 161-177: the degenerate case, the extremes and the bin count aimed at
AutoBinsOf(values_and_counts, bin_count, total_count) ==
    IF Cardinality({values_and_counts[i][1] : i \in 1..Len(values_and_counts)}) = 1
    THEN [NoBins EXCEPT !.status = "ok",
                        !.lower_bound = values_and_counts[1][1],
                        !.bin_size = <<FZero>>,
                        !.bin_count = 1,
                        !.bin_boundaries = <<values_and_counts[1][1], values_and_counts[1][1]>>,
                        !.logarithmic = FALSE,
                        !.total_count = total_count]
    ELSE IF values_and_counts = <<>>
    THEN [NoBins EXCEPT !.status = "ValueError", !.where = "low = min(values)"]
    ELSE AutoBinsSize(
             [NoBins EXCEPT !.low = min_of(values_and_counts),
                            !.high = max_of(values_and_counts),
                            !.total_count = total_count,
                            !.target = target_bin_count(bin_count, total_count)],
             values_and_counts)

\* an empty value set taken as the single value 0 without occurrences
AutoBinsPadded(values_and_counts, bin_count) ==
    AutoBinsOf(IF values_and_counts = <<>> THEN << <<FZero, 0>> >> ELSE values_and_counts,
               bin_count, total_of(values_and_counts))

AutoBinsCounted(values_and_counts, bin_count) ==
    AutoBinsOf(values_and_counts, bin_count, total_of(values_and_counts))

\* a constructor that checks only that one of the two input forms is given, and takes
\* values_and_counts when both are
AutoBinsEitherForm(values, values_and_counts, bin_count) ==
    IF values = None /\ values_and_counts = None
    THEN [NoBins EXCEPT !.status = "ValueError", !.where = "Either values or values an counts should be set"]
    ELSE AutoBinsCounted(IF values_and_counts = None THEN Counter(values[1]) ELSE values_and_counts[1],
                         bin_count)

\* AutoBins.__init__(values, values_and_counts, bin_count), the three arguments optional
AutoBins(values, values_and_counts, bin_count) ==
    IF values = None /\ values_and_counts = None
    THEN [NoBins EXCEPT !.status = "ValueError", !.where = "Either values or values an counts should be set"]
    ELSE IF values # None /\ values_and_counts # None
    THEN [NoBins EXCEPT !.status = "ValueError", !.where = "Only one of values or values_and_counts should be set"]
    ELSE AutoBinsCounted(IF values_and_counts = None THEN Counter(values[1]) ELSE values_and_counts[1],
                         bin_count)

\* a search that takes a value equal to the upper boundary of a bin as inside that bin
RECURSIVE bin_index_inclusive(_, _, _)
bin_index_inclusive(self, value, i) ==
    IF i >= self.bin_count THEN self.bin_count - 1
    ELSE IF FLe(value, self.bin_boundaries[i + 2]) THEN i
    ELSE bin_index_inclusive(self, value, i + 1)

\* a search that answers bin_count, one past the last bin, for a value below no boundary
RECURSIVE bin_index_unclamped(_, _, _)
bin_index_unclamped(self, value, i) ==
    IF i >= self.bin_count THEN self.bin_count
    ELSE IF FLt(value, self.bin_boundaries[i + 2]) THEN i
    ELSE bin_index_unclamped(self, value, i + 1)

bin_index_past_end(self, value) == bin_index_unclamped(self, value, 0)

\* AutoBins.get_bin_index_for_value
RECURSIVE bin_index_from(_, _, _)
bin_index_from(self, value, i) ==
    IF i >= self.bin_count THEN self.bin_count - 1
    ELSE IF FLt(value, self.bin_boundaries[i + 2]) THEN i
    ELSE bin_index_from(self, value, i + 1)

get_bin_index_for_value(self, value) == bin_index_from(self, value, 0)

(***************************************************************************)
(* Histogram.  The object is a record: status is "ok" or the exception     *)
(* raised by the constructor.                                              *)
(***************************************************************************)
NoHistogram == [status |-> "none", name |-> "", values |-> <<>>, bins |-> NoBins, counts |-> <<>>]

\* counts[bin_index] += 1 addresses this position of counts (from 1), 0 when out of range
counts_position(counts_len, bin_index) ==
    IF bin_index >= 0 /\ bin_index < counts_len THEN bin_index + 1
    ELSE IF bin_index < 0 /\ bin_index >= -counts_len THEN bin_index + counts_len + 1
    ELSE 0

\* lines 457-461: counts, from the position in counts that each value adds to
HistogramCounts(name, values, bins, position) ==
    IF \E i \in 1..Len(values) : position[i] = 0
    THEN [NoHistogram EXCEPT !.status = "IndexError", !.name = name, !.values = values, !.bins = bins]
    ELSE [status |-> "ok", name |-> name, values |-> values, bins |-> bins,
          counts |-> [j \in 1..bins.bin_count |->
                         Cardinality({i \in 1..Len(values) : position[i] = j})] \o <<>>]

HistogramOf(name, values, bins) ==
    IF bins.status # "ok"
    THEN [NoHistogram EXCEPT !.status = bins.status, !.name = name, !.values = values, !.bins = bins]
    ELSE HistogramCounts(name, values, bins,
             [i \in 1..Len(values) |->
                 counts_position(bins.bin_count, get_bin_index_for_value(bins, values[i]))] \o <<>>)

\* Histogram.__init__(name, values)
Histogram(name, values) == HistogramOf(name, values, AutoBins(<<values>>, None, None))

(***************************************************************************)
(* Histogram.__str__.  The text is a record: status is "ok" or the         *)
(* exception raised, scale is the local of that name, and result is the    *)
(* list of pieces that ''.join(result) puts together, a piece formatted    *)
(* with %s or str() being the pair of its format and its argument.         *)
(***************************************************************************)
NoText == [status |-> "none", scale |-> FOne, result |-> <<>>]

\* line 470: the room for stars on an 80-column display
MostStars == 70

\* the builtin round of Python 2, to an integral float, halves away from zero
round_half_up(x) ==
    IF FLe(FDec(5, 1), FSub(x, FFloor(x))) THEN FAdd(FFloor(x), FOne) ELSE FFloor(x)

\* a rounding that drops the fraction
round_down(x) == FFloor(x)

round(x) == IF x[1] = 1 THEN FNeg(round_half_up(FNeg(x))) ELSE round_half_up(x)

\* '*' * n
RECURSIVE stars(_)
stars(n) == IF n <= 0 THEN "" ELSE "*" \o stars(n - 1)

\* lines 486-492: the pieces of bin i (from 0)
bin_pieces(self, scale, i) ==
    << <<"str", self.bins.bin_boundaries[i + 1]>>, "\n", "    |",
       stars(FToInt(round(FDiv(FInt(self.counts[i + 1]), scale)))), "\n" >>

RECURSIVE bins_pieces(_, _, _)
bins_pieces(self, scale, i) ==
    IF i >= self.bins.bin_count THEN <<>>
    ELSE bin_pieces(self, scale, i) \o bins_pieces(self, scale, i + 1)

\* lines 478-494: the display string
HistogramText(self, scale) ==
    [status |-> "ok", scale |-> scale,
     result |-> <<"#\n", <<"# Histogram of %s:\n", self.name>>, "#\n">>
                \o (IF scale # FOne THEN << <<"# One star = %s\n", scale>>, "#\n" >> ELSE <<>>)
                \o <<"\n">>
                \o bins_pieces(self, scale, 0)
                \o << <<"str", self.bins.bin_boundaries[Len(self.bins.bin_boundaries)]>>, "\n" >>]

HistogramScaled(self, scale) ==
    IF scale.status # "ok" THEN [NoText EXCEPT !.status = scale.status]
    ELSE HistogramText(self, scale.value)

\* max(self.counts)
RECURSIVE biggest_of(_)
biggest_of(counts) ==
    IF Len(counts) = 1 THEN counts[1] ELSE Max(counts[1], biggest_of(Tail(counts)))

\* lines 468-471: the scale-down factor
HistogramScale(self, biggest_count) ==
    IF MostStars < biggest_count
    THEN HistogramScaled(self, round_up_to_nice(FDiv(FInt(biggest_count), FInt(MostStars)), None))
    ELSE HistogramText(self, FOne)

\* Histogram.__str__
HistogramStr(self) == HistogramScale(self, biggest_of(self.counts))

(***************************************************************************)
(* The older module src/bdata.py: its rounding helpers, which have no      *)
(* branch for x = 0 or for a tolerance of 0, and its Histogram, which      *)
(* lays out linear bins itself.  The object is a record: status is "ok" or *)
(* the exception raised by the constructor, index holds the bin index      *)
(* computed for every value, and low, high and the bin count aimed at      *)
(* (target) are the constructor's locals.                                  *)
(***************************************************************************)
\* bdata.py lines 36-50: math.log10 raises for a tolerance of 0
bdata_round_up_to_nice(x, tolerance) ==
    LET given == IF tolerance = None THEN FAbs(FDiv(x, FInt(10))) ELSE tolerance[1]
    IN  IF given = FZero \/ given[1] = 1 THEN Raised("ValueError", 0)
        ELSE round_up_loop(x, given, Pow10(Log10Ceil(given)), 1)

\* bdata.py lines 52-67: assert 0 < tolerance, then the loop
bdata_round_down_to_nice(x, tolerance) ==
    LET given == IF tolerance = None THEN FAbs(FDiv(x, FInt(10))) ELSE tolerance[1]
    IN  IF ~FLt(FZero, given) THEN Raised("AssertionError", 0)
        ELSE round_down_loop(x, given, Pow10(Log10Ceil(given)), 1)

\* bdata.py lines 80-89
bdata_round_to_nice(x, tolerance) ==
    LET down == bdata_round_down_to_nice(x, tolerance)
    IN  IF down.status # "ok" THEN down
        ELSE round_to_nice_of(x, down, bdata_round_up_to_nice(x, tolerance))

bdata_NoHistogram ==
    [status |-> "none", where |-> "", name |-> "", values |-> <<>>,
     lower_bound |-> FZero, bin_size |-> FZero, bin_count |-> 0, bin_boundaries |-> <<>>,
     counts |-> <<>>, index |-> <<>>, low |-> FZero, high |-> FZero, target |-> 0]

\* min(values) and max(values)
lowest_of(values) ==
    CHOOSE v \in {values[i] : i \in 1..Len(values)} : \A i \in 1..Len(values) : FLe(v, values[i])

highest_of(values) ==
    CHOOSE v \in {values[i] : i \in 1..Len(values)} : \A i \in 1..Len(values) : FLe(values[i], v)

\* bdata.py lines 162-165: counts[i] += 1 for the index i of every value
bdata_HistogramCounted(self, position) ==
    IF \E i \in 1..Len(self.values) : position[i] = 0
    THEN [self EXCEPT !.status = "IndexError", !.where = "self.counts[i] += 1"]
    ELSE [self EXCEPT !.status = "ok",
                      !.counts = [j \in 1..self.bin_count |->
                                     Cardinality({i \in 1..Len(self.values) : position[i] = j})] \o <<>>]

bdata_HistogramIndexed(self) ==
    bdata_HistogramCounted(self,
        [i \in 1..Len(self.values) |-> counts_position(self.bin_count, self.index[i])] \o <<>>)

\* bdata.py line 164: i = int((v - lower_bound) / bin_size)
bdata_HistogramCounts(self) ==
    bdata_HistogramIndexed(
        [self EXCEPT !.index = [i \in 1..Len(self.values) |->
            FToInt(FDiv(FSub(self.values[i], self.lower_bound), self.bin_size))] \o <<>>])

\* bdata.py lines 147-159: the two assertions, the attributes and the boundaries
bdata_HistogramAssert(self, lower_bound, bin_size, bin_count) ==
    IF ~FLe(lower_bound, self.low)
    THEN [self EXCEPT !.status = "AssertionError", !.where = "assert lower_bound <= min(values)"]
    ELSE IF ~FLe(self.high, FAdd(lower_bound, FMul(bin_size, FInt(bin_count))))
    THEN [self EXCEPT !.status = "AssertionError",
                      !.where = "assert max(values) <= lower_bound + bin_size * bin_count"]
    ELSE bdata_HistogramCounts(
             [self EXCEPT !.lower_bound = lower_bound, !.bin_size = bin_size, !.bin_count = bin_count,
                          !.bin_boundaries = linear_boundaries(lower_bound, bin_size, bin_count, 0)])

\* bdata.py line 145: bin_count = int(math.ceil((high - lower_bound) / bin_size))
bdata_HistogramCount(self, lower_bound, bin_size) ==
    bdata_HistogramAssert(self, lower_bound, bin_size,
        recomputed_bin_count(self.high, lower_bound, bin_size))

\* bdata.py lines 138-142: the nice bin size and the lower bound
bdata_HistogramBinSize(self, middle, bin_size) ==
    IF bin_size.status # "ok"
    THEN [self EXCEPT !.status = bin_size.status, !.where = "bin_size = round_up_to_nice"]
    ELSE bdata_HistogramCount(self,
             FSub(middle, FMul(bin_size.value, FDiv(FInt(self.target), FInt(2)))),
             bin_size.value)

\* bdata.py lines 133-138: the nice middle
bdata_HistogramMiddle(self, middle) ==
    IF middle.status # "ok"
    THEN [self EXCEPT !.status = middle.status, !.where = "middle = round_to_nice"]
    ELSE bdata_HistogramBinSize(self, middle.value,
             bdata_round_up_to_nice(
                 FDiv(FMul(FMax(FSub(middle.value, self.low), FSub(self.high, middle.value)), FInt(2)),
                      FInt(self.target)),
                 None))

bdata_HistogramSpan(self) ==
    bdata_HistogramMiddle(self,
        bdata_round_to_nice(FDiv(FAdd(self.low, self.high), FInt(2)),
                            <<FDiv(FSub(self.high, self.low), FInt(self.target))>>))

\* bdata.py Histogram.__init__(name, values), lines 120-165
bdata_Histogram(name, values) ==
    bdata_HistogramSpan(
        [bdata_NoHistogram EXCEPT !.name = name, !.values = values,
                                  !.low = lowest_of(values), !.high = highest_of(values),
                                  !.target = 1 + RoundLog2(Len(values))])

(***************************************************************************)
(* The inputs of the calls.                                                *)
(***************************************************************************)
MaxNeg == 2
MaxNum == 5
MaxDec == 1
MaxUlp == 1
MaxCount == 2
MaxBins == 4
MaxNice == 17
MaxTol == 1

\* a float moved u floats away from zero
RECURSIVE Nudge(_, _)
Nudge(a, u) == IF u = 0 \/ a = FZero THEN a ELSE Nudge(FSucc(a), u - 1)

\* the float of the decimal literal n / 10^k, moved u floats away from zero
Decimal(n, k, u) == Nudge(FDec(n, k), u)

\* [v] * c
Repeat(v, c) == [i \in 1..c |-> v] \o <<>>

\* two distinct values n1 / 10^k < n2 / 10^k, the smaller with count c, the larger
\* moved u floats away from zero
Pairs(decs, ulps, counts) ==
    { << <<Decimal(t[1], t[3], 0), t[5]>>, <<Decimal(t[2], t[3], t[4]), 1>> >> :
          t \in { t \in ((-MaxNeg)..MaxNum) \X ((-MaxNeg)..MaxNum) \X decs \X ulps \X counts : t[1] < t[2] } }

\* the values list of a sequence of two <<value, count>> pairs
Listed(p) == Repeat(p[1][1], p[1][2]) \o Repeat(p[2][1], p[2][2])

\* the 16 values 1.2, 1.4, ..., 4.2 of TestAutoBins (data.py line 270)
SixteenValues == [i \in 1..16 |-> FAdd(FDec(12, 1), FDiv(FInt(i - 1), FInt(5)))] \o <<>>

\* the 45 values of TestHistogram.test_regress_1 (data.py lines 501-505)
RegressValues ==
    [i \in 1..45 |-> FInt(<<28, 27, 27, 24, 27, 24, 28, 27, 26,
                           27, 28, 25, 25, 27, 24, 28, 27, 25,
                           24, 26, 26, 24, 26, 25, 27, 35, 26,
                           25, 27, 27, 28, 27, 28, 27, 26, 27,
                           24, 24, 25, 27, 27, 25, 24, 27, 25>>[i])] \o <<>>

\* two values that differ little, the smaller the more frequent
SkewedValues == <<FInt(14), FInt(14), FInt(15)>>

\* two values four floats apart at most, the smaller the more frequent
CloseValues == <<FOne, FOne, Nudge(FOne, 2)>>

\* the numbers of occurrences around the room for stars, and well above it
MaxOver == 2

TallCounts == ((MostStars - MaxOver - MaxCount)..(MostStars + MaxOver)) \cup {119, 4 * MostStars}

BinCounts == {None} \cup {<<n>> : n \in 1..MaxBins}

\* the arguments <<values, values_and_counts, bin_count>> of the AutoBins constructions
AutoBinsArgs ==
    { <<None, <<p>>, n>> :
          p \in Pairs({0}, 0..MaxUlp, 1..MaxCount) \cup Pairs(1..MaxDec, {0}, 1..MaxCount),
          n \in BinCounts }
    \cup { <<<<Listed(p)>>, None, None>> : p \in Pairs({0}, {0}, {MaxCount}) }
    \cup { <<<<SixteenValues>>, None, n>> : n \in BinCounts }
    \cup { <<<<SkewedValues>>, None, n>> : n \in BinCounts }
    \cup { <<<<CloseValues>>, None, n>> : n \in BinCounts }
    \cup { <<<<Repeat(FInt(5), c)>>, None, n>> : c \in 1..MaxCount, n \in BinCounts }
    \cup { <<None, << << <<FInt(5), c>> >> >>, n>> : c \in 1..MaxCount, n \in BinCounts }
    \cup { <<None, << << <<FInt(5), 1>>, <<FInt(5), c>> >> >>, None>> : c \in 1..MaxCount }
    \cup { <<<< <<>> >>, None, n>> : n \in BinCounts }
    \cup { <<None, << <<>> >>, n>> : n \in BinCounts }
    \cup { <<None, None, n>> : n \in BinCounts }
    \cup { <<<<SixteenValues>>, << << <<FInt(5), 1>> >> >>, None>>,
           <<<<Repeat(FInt(5), MaxCount)>>, << << <<FInt(1), 1>>, <<FInt(2), 1>> >> >>, <<MaxBins>>>> }

\* the values lists of the Histogram constructions
HistogramArgs ==
    { Listed(p) : p \in Pairs(0..MaxDec, {0}, {MaxCount}) }
    \cup { SixteenValues, RegressValues, SkewedValues, Repeat(FInt(5), MaxCount) }
    \cup { Repeat(FInt(1), c) \o Repeat(FInt(v), MaxCount) : c \in TallCounts, v \in {1, 3} }

\* math.pi, the float 7074237752028440 * 2^-51
Pi == <<0, <<11544, 10376, 2029, 201>>, -51>>

NiceNumbers == { Decimal(n, k, 0) : n \in (-MaxNice)..MaxNice, k \in 0..MaxDec } \cup {Pi}

Tolerances == {None} \cup { <<Decimal(n, k, 0)>> : n \in 0..MaxTol, k \in 0..MaxDec }

(***************************************************************************)
(* The state: the call (call: its name, its arguments, and whether it has  *)
(* returned), and what it produced: the result of a rounding helper        *)
(* (nice), the AutoBins object (bins), the Histogram object (hist), and    *)
(* the answer <<value, index>> of get_bin_index_for_value on bins          *)
(* (bin_index, <<>> before the call), and what str() of the Histogram      *)
(* gave (text), and the Histogram object of the older module bdata.py      *)
(* (bdata_hist).                                                           *)
(***************************************************************************)
VARIABLES call, nice, bins, hist, bin_index, text, bdata_hist

vars == <<call, nice, bins, hist, bin_index, text, bdata_hist>>

NoCall == [op |-> "none", returned |-> FALSE, x |-> FZero, tolerance |-> None, values |-> None,
           values_and_counts |-> None, bin_count |-> None]

NoResult == [status |-> "none", value |-> FZero, tries |-> 0]

Calls ==
    { [NoCall EXCEPT !.op = op, !.x = x, !.tolerance = tolerance] :
          op \in {"round_up_to_nice", "round_down_to_nice", "round_to_nice"},
          x \in NiceNumbers, tolerance \in Tolerances }
    \cup { [NoCall EXCEPT !.op = "AutoBins", !.values = a[1], !.values_and_counts = a[2],
                          !.bin_count = a[3]] : a \in AutoBinsArgs }
    \cup { [NoCall EXCEPT !.op = op, !.values = <<values>>] :
               op \in {"Histogram", "bdata.Histogram"}, values \in HistogramArgs }

Init ==
    /\ call \in Calls
    /\ nice = NoResult
    /\ bins = NoBins
    /\ hist = NoHistogram
    /\ bin_index = <<>>
    /\ text = NoText
    /\ bdata_hist = bdata_NoHistogram

CallRoundUpToNice ==
    /\ call.op = "round_up_to_nice" /\ ~call.returned
    /\ nice' = round_up_to_nice(call.x, call.tolerance)
    /\ call' = [call EXCEPT !.returned = TRUE]
    /\ UNCHANGED <<bins, hist, bin_index, text, bdata_hist>>

CallRoundDownToNice ==
    /\ call.op = "round_down_to_nice" /\ ~call.returned
    /\ nice' = round_down_to_nice(call.x, call.tolerance)
    /\ call' = [call EXCEPT !.returned = TRUE]
    /\ UNCHANGED <<bins, hist, bin_index, text, bdata_hist>>

CallRoundToNice ==
    /\ call.op = "round_to_nice" /\ ~call.returned
    /\ nice' = round_to_nice(call.x, call.tolerance)
    /\ call' = [call EXCEPT !.returned = TRUE]
    /\ UNCHANGED <<bins, hist, bin_index, text, bdata_hist>>

NewAutoBins ==
    /\ call.op = "AutoBins" /\ ~call.returned
    /\ bins' = AutoBins(call.values, call.values_and_counts, call.bin_count)
    /\ call' = [call EXCEPT !.returned = TRUE]
    /\ UNCHANGED <<nice, hist, bin_index, text, bdata_hist>>

NewHistogram ==
    /\ call.op = "Histogram" /\ ~call.returned
    /\ hist' = Histogram("test", call.values[1])
    /\ call' = [call EXCEPT !.returned = TRUE]
    /\ UNCHANGED <<nice, bins, bin_index, text, bdata_hist>>

\* the values asked about: the boundaries, the values between and around them, the extremes of the data
Probes(self) ==
    LET b == self.bin_boundaries
    IN  {b[i] : i \in 1..Len(b)}
        \cup {FDiv(FAdd(b[i], b[i + 1]), FInt(2)) : i \in 1..(Len(b) - 1)}
        \cup {FSub(b[1], FInt(1)), FAdd(b[Len(b)], FInt(1)), self.low, self.high}

GetBinIndexForValue(value) ==
    /\ bin_index = <<>>
    /\ bin_index' = <<value, get_bin_index_for_value(bins, value)>>
    /\ UNCHANGED <<call, nice, bins, hist, text, bdata_hist>>

NewBdataHistogram ==
    /\ call.op = "bdata.Histogram" /\ ~call.returned
    /\ bdata_hist' = bdata_Histogram("test", call.values[1])
    /\ call' = [call EXCEPT !.returned = TRUE]
    /\ UNCHANGED <<nice, bins, hist, bin_index, text>>

Str ==
    /\ call.op = "Histogram" /\ call.returned /\ hist.status = "ok"
    /\ text = NoText
    /\ text' = HistogramStr(hist)
    /\ UNCHANGED <<call, nice, bins, hist, bin_index, bdata_hist>>

Next ==
    \/ CallRoundUpToNice
    \/ CallRoundDownToNice
    \/ CallRoundToNice
    \/ NewAutoBins
    \/ NewHistogram
    \/ NewBdataHistogram
    \/ Str
    \/ /\ call.op = "AutoBins" /\ call.returned /\ bins.status = "ok"
       /\ \E value \in Probes(bins) : GetBinIndexForValue(value)

Spec == Init /\ [][Next]_vars

(***************************************************************************)
(* The properties.  Each is a predicate of the state after the call        *)
(* returned: Done(op) says that the call of op returned.                   *)
(***************************************************************************)
Done(op) == call.op = op /\ call.returned

\* the values and counts that the constructor works on (lines 154-158)
Data == IF call.values_and_counts = None THEN Counter(call.values[1]) ELSE call.values_and_counts[1]

DataValues == {Data[i][1] : i \in 1..Len(Data)}

DataMin == CHOOSE v \in DataValues : \A w \in DataValues : FLe(v, w)

DataMax == CHOOSE v \in DataValues : \A w \in DataValues : FLe(w, v)

\* the call of AutoBins is one with exactly one input form, and at least two distinct values
NonDegenerate ==
    /\ Done("AutoBins")
    /\ (call.values = None) # (call.values_and_counts = None)
    /\ Cardinality(DataValues) >= 2

AssertionFailed ==
    /\ bins.status = "AssertionError"
    /\ bins.where \in {"assert lower_bound <= low", "assert high <= lower_bound + bin_size * bin_count"}

\* C1: for every non-degenerate input and every target bin count of at least 1, both
\* assertions of the constructor hold: lower_bound <= min(values) and
\* max(values) <= lower_bound + bin_size * bin_count
C1_AssertionsHold == NonDegenerate => ~AssertionFailed

\* C2: Histogram puts every input value in exactly one bin: every index is in
\* 0..bin_count-1, there are bin_count counts, and they add up to the number of values
C2_EveryValueCounted ==
    (Done("Histogram") /\ hist.bins.status = "ok") =>
        /\ hist.status = "ok"
        /\ Len(hist.counts) = hist.bins.bin_count
        /\ \A i \in 1..Len(hist.values) :
               get_bin_index_for_value(hist.bins, hist.values[i]) \in 0..(hist.bins.bin_count - 1)
        /\ total_of([j \in 1..Len(hist.counts) |-> <<FZero, hist.counts[j]>>] \o <<>>) = Len(hist.values)

\* the outlier of the regression test is counted, in the last bin
C2_Witness ==
    /\ Done("Histogram") /\ hist.status = "ok"
    /\ hist.values = RegressValues
    /\ hist.counts[Len(hist.counts)] >= 1
    /\ \E i \in 1..Len(hist.values) : ~FLt(hist.values[i], hist.bins.bin_boundaries[Len(hist.bins.bin_boundaries)])

\* C3: for a value v >= boundaries[0], get_bin_index_for_value answers the smallest i in
\* 0..bin_count-1 with v < boundaries[i+1], or bin_count-1 when there is none; the answer
\* satisfies boundaries[i] <= v < boundaries[i+1] whenever v < boundaries[-1]
C3_BinIndex ==
    (bin_index # <<>> /\ FLe(bins.bin_boundaries[1], bin_index[1])) =>
        LET b == bins.bin_boundaries
            n == bins.bin_count
            v == bin_index[1]
            i == bin_index[2]
            below == {j \in 0..(n - 1) : FLt(v, b[j + 2])}
        IN  /\ i \in 0..(n - 1)
            /\ below # {} => i \in below /\ \A j \in below : i <= j
            /\ below = {} => i = n - 1
            /\ FLt(v, b[Len(b)]) => FLe(b[i + 1], v) /\ FLt(v, b[i + 2])

\* a value equal to an inner boundary is in the bin that starts there
C3_Witness ==
    /\ bin_index # <<>> /\ bins.bin_count >= 2
    /\ bin_index[2] >= 1
    /\ bin_index[1] = bins.bin_boundaries[bin_index[2] + 1]

\* the tolerance that a rounding helper works with (lines 44-45, 64-65)
ToleranceOf(x, tolerance) == IF tolerance = None THEN FAbs(FDiv(x, FInt(10))) ELSE tolerance[1]

PositiveTolerance == call.x # FZero /\ FLt(FZero, ToleranceOf(call.x, call.tolerance))

\* C4: for x # 0 and a tolerance > 0, round_up_to_nice returns r with x <= r and
\* r - x <= tolerance, and the assertion in its loop never fails
C4_RoundUpWithin ==
    (Done("round_up_to_nice") /\ PositiveTolerance) =>
        /\ nice.status = "ok"
        /\ FLe(call.x, nice.value)
        /\ FLe(FSub(nice.value, call.x), ToleranceOf(call.x, call.tolerance))

\* C5: for x # 0 and a tolerance > 0, round_down_to_nice returns r with r <= x and
\* x - r <= tolerance, and the assertion in its loop never fails
C5_RoundDownWithin ==
    (Done("round_down_to_nice") /\ PositiveTolerance) =>
        /\ nice.status = "ok"
        /\ FLe(nice.value, call.x)
        /\ FLe(FSub(call.x, nice.value), ToleranceOf(call.x, call.tolerance))

\* the occurrences of the values below bound
OccurrencesBelow(bound) ==
    Cardinality(UNION { {<<i, k>> : k \in 1..Data[i][2]} :
                            i \in {i \in 1..Len(Data) : FLt(Data[i][1], bound)} })

Occurrences == Cardinality(UNION { {<<i, k>> : k \in 1..Data[i][2]} : i \in 1..Len(Data) })

Constructed == NonDegenerate /\ bins.status = "ok"

Logarithmic == Constructed /\ bins.logarithmic

\* C6: for non-degenerate input is_logarithmic() is true if and only if min(values) > 0
\* and the occurrences below boundaries[1] of the linear candidate are strictly more than
\* half of total_count; otherwise the linear candidate is returned unchanged
C6_LogarithmicIff ==
    Constructed =>
        /\ bins.logarithmic <=>
               (FLt(FZero, DataMin) /\ 2 * OccurrencesBelow(bins.linear.bin_boundaries[2]) > Occurrences)
        /\ ~bins.logarithmic =>
               /\ bins.lower_bound = bins.linear.lower_bound
               /\ bins.bin_size = <<bins.linear.bin_size>>
               /\ bins.bin_count = bins.linear.bin_count
               /\ bins.bin_boundaries = bins.linear.bin_boundaries
        /\ ~FLt(FZero, DataMin) => ~bins.logarithmic

\* exactly half of the occurrences are in the first bin of positive data, which stays linear
C6_Witness ==
    /\ Constructed /\ ~bins.logarithmic /\ FLt(FZero, DataMin)
    /\ 2 * OccurrencesBelow(bins.linear.bin_boundaries[2]) = Occurrences

\* C7: in logarithmic mode the boundaries are strictly increasing:
\* boundaries[i] < boundaries[i+1] for every i in [0, bin_count)
C7_LogStrictlyIncreasing ==
    Logarithmic =>
        \A i \in 1..bins.bin_count : FLt(bins.bin_boundaries[i], bins.bin_boundaries[i + 1])

\* C8: in logarithmic mode the last boundary reaches the maximum of the data
C8_LogReachesMax ==
    Logarithmic => FLe(DataMax, bins.bin_boundaries[Len(bins.bin_boundaries)])

\* C9: in logarithmic mode boundaries[0] equals lower_bound = round_down_to_nice(min(values)),
\* and so boundaries[0] <= min(values)
C9_LogStartsAtLowerBound ==
    Logarithmic =>
        /\ bins.lower_bound = round_down_to_nice(DataMin, None).value
        /\ bins.bin_boundaries[1] = bins.lower_bound
        /\ FLe(bins.bin_boundaries[1], DataMin)

Supplied == Constructed /\ call.bin_count # None

\* C10 as stated: for non-degenerate input constructed with bin_count = n, get_bin_count() is n
C10_SuppliedCountExact == Supplied => bins.bin_count = call.bin_count[1]

\* C10: a supplied bin_count = n replaces Sturges' estimate as the bin count aimed at; the
\* linear candidate has the least bin count k with (max - lower_bound) / bin_size <= k, which
\* is 4 with boundaries 1.2, 2.1, ... for n = 4 on the 16 values 1.2, ..., 4.2
C10_SuppliedCountAimedAt ==
    Supplied =>
        LET n == call.bin_count[1]
            ratio == FDiv(FSub(DataMax, bins.linear.lower_bound), bins.linear.bin_size)
            k == bins.linear.bin_count
        IN  /\ bins.target = n
            /\ bins.bin_count = k
            /\ FLe(ratio, FInt(k)) /\ ~FLe(ratio, FInt(k - 1))
            /\ (call.values = <<SixteenValues>> /\ n = 4) =>
                   /\ bins.bin_count = 4
                   /\ bins.bin_boundaries[1] = FDec(12, 1)
                   /\ bins.bin_boundaries[2] = FDec(21, 1)

\* a layout with a bin count other than the one supplied
C10_Witness == Supplied /\ bins.bin_count # call.bin_count[1]

OneForm == Done("AutoBins") /\ (call.values = None) # (call.values_and_counts = None)

\* C11: with exactly one distinct value v (any number of occurrences, either input form, with
\* or without bin_count) the layout is bin_count 1, boundaries [v, v], lower_bound v, not
\* logarithmic, and nothing of the general formula is evaluated
C11_SingleValue ==
    (OneForm /\ Cardinality(DataValues) = 1) =>
        LET v == CHOOSE v \in DataValues : TRUE
        IN  /\ bins.status = "ok"
            /\ bins.bin_count = 1
            /\ bins.bin_boundaries = <<v, v>>
            /\ bins.lower_bound = v
            /\ ~bins.logarithmic
            /\ bins.target = NoBins.target /\ bins.linear = NoLayout

\* one value given as several pairs, or several times, with a bin count supplied or not
C11_Witness ==
    /\ OneForm /\ Cardinality(DataValues) = 1 /\ bins.status = "ok"
    /\ \/ call.values_and_counts # None /\ Len(Data) >= 2
       \/ call.values # None /\ Len(call.values[1]) >= 2 /\ call.bin_count # None

\* the <<value, count>> pairs obtained by grouping the equal values of a list
Grouped(L) ==
    { <<v, Cardinality({i \in 1..Len(L) : L[i] = v})>> : v \in {L[i] : i \in 1..Len(L)} }

RECURSIVE Ascending(_)
Ascending(S) ==
    IF S = {} THEN <<>>
    ELSE LET least == CHOOSE p \in S : \A q \in S : FLe(p[1], q[1])
         IN  <<least>> \o Ascending(S \ {least})

Reversed(s) == [i \in 1..Len(s) |-> s[Len(s) + 1 - i]] \o <<>>

MaxPermuted == 3

\* the orderings of a set of pairs: all of them for a small set, else the two sorted ones
Orderings(S) ==
    IF Cardinality(S) <= MaxPermuted
    THEN { f \in [1..Cardinality(S) -> S] : \A i, j \in 1..Cardinality(S) : f[i] = f[j] => i = j }
    ELSE { Ascending(S), Reversed(Ascending(S)) }

SameLayout(a, b) ==
    /\ a.status = b.status
    /\ a.logarithmic = b.logarithmic
    /\ a.bin_count = b.bin_count
    /\ a.bin_boundaries = b.bin_boundaries

\* C12: AutoBins(values=L) and AutoBins(values_and_counts=P), P any ordering of the pairs
\* obtained by grouping the equal values of L, give the same is_logarithmic(), get_bin_count()
\* and get_bin_boundaries(), with the same bin_count supplied to both
C12_SameForBothForms ==
    (Done("AutoBins") /\ bin_index = <<>> /\ call.values # None /\ call.values_and_counts = None) =>
        \A P \in Orderings(Grouped(call.values[1])) :
            SameLayout(bins, AutoBins(None, <<P \o <<>> >>, call.bin_count))

\* a list with a repeated value and a second value, laid out
C12_Witness ==
    /\ Done("AutoBins") /\ call.values # None /\ call.values_and_counts = None
    /\ bins.status = "ok"
    /\ Cardinality(Grouped(call.values[1])) >= 2
    /\ \E p \in Grouped(call.values[1]) : p[2] >= 2

Untouched ==
    /\ bins.lower_bound = NoBins.lower_bound /\ bins.bin_size = NoBins.bin_size
    /\ bins.bin_count = NoBins.bin_count /\ bins.bin_boundaries = NoBins.bin_boundaries
    /\ bins.linear = NoLayout /\ bins.growth = NoBins.growth

\* C13: with neither values nor values_and_counts, or with both, the constructor raises
\* ValueError before any layout field is computed
C13_UsageError ==
    (Done("AutoBins") /\ (call.values = None) = (call.values_and_counts = None)) =>
        bins.status = "ValueError" /\ Untouched

\* both input forms were given
C13_Witness ==
    /\ Done("AutoBins") /\ call.values # None /\ call.values_and_counts # None
    /\ bins.status = "ValueError"

\* C14: an empty value set (values=[] or values_and_counts=[]) fails with an error; it is
\* not taken as the degenerate case and no layout field is set
C14_EmptyFails ==
    (OneForm /\ Data = <<>>) =>
        bins.status \notin {"ok", "none"} /\ Untouched

\* the empty list of pairs was given
C14_Witness ==
    /\ OneForm /\ call.values_and_counts = << <<>> >>
    /\ bins.status = "ValueError"

Distance(a, b) == FAbs(FSub(a, b))

\* C15: round_up_to_nice and round_down_to_nice return 0 for x = 0 whatever the tolerance
\* (None and 0 included), and x unchanged for x # 0 and a tolerance of 0, by branches
\* taken before any quantum is computed
C15_EdgeCases ==
    (Done("round_up_to_nice") \/ Done("round_down_to_nice")) =>
        /\ call.x = FZero => nice = Returned(FZero, 0)
        /\ (call.x # FZero /\ call.tolerance = <<FZero>>) => nice = Returned(call.x, 0)

\* a number other than 0 was rounded up with a tolerance of 0
C15_Witness ==
    /\ Done("round_up_to_nice") /\ call.x # FZero /\ call.tolerance = <<FZero>>
    /\ nice.status = "ok" /\ nice.value = call.x

\* the numbers of the calls of nearest in TestUtilities.test_nearest
TestNumbers == <<FInt(1), FInt(2), FInt(3)>>

\* C16: round_to_nice(x, tolerance) returns one of round_down_to_nice(x, tolerance) and
\* round_up_to_nice(x, tolerance), one whose distance to x is least, and so at most
\* tolerance; nearest(x, values) returns an element of values whose distance to x is least
C16_RoundToNearest ==
    (Done("round_to_nice") /\ nice.status = "ok") =>
        LET down == round_down_to_nice(call.x, call.tolerance).value
            up == round_up_to_nice(call.x, call.tolerance).value
            near == nearest(call.x, TestNumbers)
        IN  /\ nice.value \in {down, up}
            /\ FLe(Distance(nice.value, call.x), Distance(down, call.x))
            /\ FLe(Distance(nice.value, call.x), Distance(up, call.x))
            /\ FLe(Distance(nice.value, call.x), ToleranceOf(call.x, call.tolerance))
            /\ \E i \in 1..Len(TestNumbers) : near = TestNumbers[i]
            /\ \A i \in 1..Len(TestNumbers) :
                   FLe(Distance(near, call.x), Distance(TestNumbers[i], call.x))

\* the number rounded up is strictly nearer than the number rounded down, and is returned
C16_Witness ==
    /\ Done("round_to_nice") /\ nice.status = "ok"
    /\ nice.value = round_up_to_nice(call.x, call.tolerance).value
    /\ FLt(Distance(nice.value, call.x),
           Distance(round_down_to_nice(call.x, call.tolerance).value, call.x))

\* C17: when no value is negative, get_bin_boundaries()[0] >= 0
C17_NoNegativeAxis ==
    (OneForm /\ bins.status = "ok" /\ FLe(FZero, DataMin)) => FLe(FZero, bins.bin_boundaries[1])

\* the lower bound as computed in line 189, before it is clamped
Unclamped ==
    FSub(round_to_nice(FDiv(FAdd(DataMin, DataMax), FInt(2)),
                       <<FDiv(FSub(DataMax, DataMin), FInt(bins.target))>>).value,
         FMul(bins.linear.bin_size, FDiv(FInt(bins.target), FInt(2))))

\* the lower bound computed was negative and the layout starts at 0
C17_Witness ==
    /\ Constructed /\ bin_index = <<>> /\ ~bins.logarithmic /\ FLe(FZero, DataMin)
    /\ FLt(Unclamped, FZero)
    /\ bins.bin_boundaries[1] = FZero

\* C18: every layout constructed has get_bin_count() >= 1 and bin_count + 1 boundaries;
\* in linear mode bin_size > 0 and boundary i is lower_bound + i * bin_size
C18_LayoutShape ==
    (OneForm /\ bins.status = "ok") =>
        /\ bins.bin_count >= 1
        /\ Len(bins.bin_boundaries) = bins.bin_count + 1
        /\ (Constructed /\ ~bins.logarithmic) =>
               /\ FLt(FZero, bins.bin_size[1])
               /\ \A i \in 0..bins.bin_count :
                      bins.bin_boundaries[i + 1] = FAdd(bins.lower_bound, FMul(FInt(i), bins.bin_size[1]))

\* a linear layout of several bins
C18_Witness == Constructed /\ ~bins.logarithmic /\ bins.bin_count >= 3

Defaulted == Constructed /\ call.bin_count = None

\* the target is 1 + r for the integer r nearest to log2(total_count)
SturgesTarget ==
    \E r \in 0..Occurrences :
        /\ bins.target = 1 + r
        /\ 2^(2 * r - 1) <= Occurrences * Occurrences
        /\ Occurrences * Occurrences < 2^(2 * r + 1)

SixteenDefaulted == Defaulted /\ call.values = <<SixteenValues>>

\* C19 as stated: without bin_count the target is 1 + round(log2(total_count)); for the 16
\* values 1.2 + i/5 it is 5 and the linear layout has boundaries[0] == 0.75,
\* boundaries[1] == 1.45 and get_bin_count() == 5
C19_SixteenExact ==
    /\ Defaulted => SturgesTarget
    /\ SixteenDefaulted =>
           /\ bins.target = 5 /\ ~bins.logarithmic /\ bins.bin_count = 5
           /\ bins.bin_boundaries[1] = FDec(75, 2)
           /\ bins.bin_boundaries[2] = FDec(145, 2)

\* what assertAlmostEqual(a, b) checks: round(a - b, 7) == 0
AlmostEqual(a, b) == FLt(Distance(a, b), FDec(5, 8))

\* C19: without bin_count the target is 1 + round(log2(total_count)); for the 16 values
\* 1.2 + i/5 it is 5 and the linear layout has 5 bins, boundaries[0] the second float below
\* 0.75 and boundaries[1] the float below 1.45, which are 0.75 and 1.45 to 7 places
C19_SixteenAlmost ==
    /\ Defaulted => SturgesTarget
    /\ SixteenDefaulted =>
           /\ bins.target = 5 /\ ~bins.logarithmic /\ bins.bin_count = 5
           /\ bins.bin_boundaries[1] = FPred(FPred(FDec(75, 2)))
           /\ bins.bin_boundaries[2] = FPred(FDec(145, 2))
           /\ AlmostEqual(bins.bin_boundaries[1], FDec(75, 2))
           /\ AlmostEqual(bins.bin_boundaries[2], FDec(145, 2))

\* the 16 values were laid out without a bin count
C19_Witness == SixteenDefaulted /\ Occurrences = 16 /\ bins.bin_count = 5

Shown == Done("Histogram") /\ text.status # "none"

BiggestCount == CHOOSE c \in {hist.counts[i] : i \in 1..Len(hist.counts)} :
                    \A i \in 1..Len(hist.counts) : hist.counts[i] <= c

\* the number of pieces before those of the bins: six with the annotation, four without
Heading == IF BiggestCount > MostStars THEN 6 ELSE 4

\* the bar of bin i (from 1)
Bar(i) == text.result[Heading + 5 * (i - 1) + 4]

\* n is the integer nearest to q >= 0, the farther from zero of two equally near
Nearest(q, n) ==
    \/ FLt(Distance(q, FInt(n)), FDec(5, 1))
    \/ FSub(FInt(n), q) = FDec(5, 1)

\* C20: Histogram.__str__ scales the bars only when the largest count exceeds 70: up to 70
\* the scale is 1, there is no 'One star =' line and bin i has counts[i] stars; above 70 the
\* scale is round_up_to_nice(max(counts) / 70) > 1, the 'One star =' line is there, bin i
\* has round(counts[i] / scale) stars, and no bar has more than 70 stars
C20_ScaledBars ==
    Shown =>
        /\ text.status = "ok"
        /\ Len(text.result) = Heading + 5 * hist.bins.bin_count + 2
        /\ \A i \in 1..hist.bins.bin_count : Bar(i) = stars(Len(Bar(i))) /\ Len(Bar(i)) <= MostStars
        /\ BiggestCount <= MostStars =>
               /\ text.scale = FOne
               /\ text.result[4] = "\n"
               /\ \A i \in 1..hist.bins.bin_count : Len(Bar(i)) = hist.counts[i]
        /\ BiggestCount > MostStars =>
               /\ text.scale = round_up_to_nice(FDiv(FInt(BiggestCount), FInt(MostStars)), None).value
               /\ FLt(FOne, text.scale)
               /\ text.result[4] = <<"# One star = %s\n", text.scale>>
               /\ \A i \in 1..hist.bins.bin_count :
                      Nearest(FDiv(FInt(hist.counts[i]), text.scale), Len(Bar(i)))

\* a histogram with a count above 70 was shown, its bars scaled down
C20_Witness ==
    /\ Shown /\ text.status = "ok" /\ BiggestCount > MostStars
    /\ \E i \in 1..hist.bins.bin_count : Len(Bar(i)) >= 1 /\ Len(Bar(i)) < hist.counts[i]

PiRounded == Done("round_to_nice") /\ call.x = Pi /\ call.tolerance = None

\* C21: round_to_nice(math.pi) with the default tolerance returns 3.1 to 7 decimal places
C21_PiRoundsTo31 == PiRounded => nice.status = "ok" /\ AlmostEqual(nice.value, FDec(31, 1))

\* C22: for x # 0 and a tolerance > 0 the loop of round_up_to_nice and round_down_to_nice
\* ends with a candidate within tolerance of x, found no later than the third quantum tried
C22_FoundByThirdQuantum ==
    ((Done("round_up_to_nice") \/ Done("round_down_to_nice")) /\ PositiveTolerance) =>
        /\ nice.status = "ok"
        /\ nice.tries \in 1..3
        /\ FLe(Distance(nice.value, call.x), ToleranceOf(call.x, call.tolerance))

\* the constructor of the older Histogram came to count the values
BdataCounted ==
    /\ Done("bdata.Histogram") /\ bdata_hist.status \in {"ok", "IndexError"}
    /\ Cardinality({call.values[1][i] : i \in 1..Len(call.values[1])}) >= 2

\* C23: in src/bdata.py, Histogram.__init__ counts each value v into bin
\* int((v - lower_bound) / bin_size), which for every list with at least two distinct values
\* lies in [0, bin_count - 1], so that counts[i] += 1 never indexes outside counts
C23_BdataIndexInRange ==
    BdataCounted =>
        /\ bdata_hist.status = "ok"
        /\ \A i \in 1..Len(bdata_hist.index) : bdata_hist.index[i] \in 0..(bdata_hist.bin_count - 1)
====
